---- MODULE Spec2Model ----
(***************************************************************************)
(* arp.c: ARP over a Linux TAP device.  main attaches to tap0, reads its   *)
(* hardware address and runs one engine: wait_n_reply (MODE 0) answers     *)
(* every ARP frame it reads, req_n_wait (MODE 1) sends one request and     *)
(* waits for the first ARP frame.                                          *)
(*                                                                         *)
(* Memory is modelled as bytes: a struct arp_packet is a sequence of 42    *)
(* bytes (both structs are packed), a field is a byte range of it, and a   *)
(* 16-bit field is loaded and stored in the byte order of the host.        *)
(***************************************************************************)
EXTENDS Integers, Sequences, FiniteSets, TLC

(* ------------------------------------------------------------------ *)
(* Bounds of the model                                                  *)
(* ------------------------------------------------------------------ *)

\* read() calls that return a frame, per run
MaxReads == 3

\* bytes of pckt_buf kept in the state: the longest frame the wire delivers
MaxFrameLen == 44

(* ------------------------------------------------------------------ *)
(* Program constants                                                    *)
(* ------------------------------------------------------------------ *)

INET_ADDR_LEN == 4
ETHER_ADDR_LEN == 6
\* 0x0806
ETH_P_ARP == 2054
\* 0x0800
ETH_P_IP == 2048
ETH_P_802_3 == 1
ARPOP_REQUEST == 1
ARPOP_REPLY == 2
\* sizeof(pckt_buf)
PCKT_BUF_SIZE == 1500

\* the string literals, one character per element
DEVICE_IP == <<"1","7","2",".","1","6",".","6","0",".","2","5","0">>
TARGET_IP == <<"1","7","2",".","1","6",".","6","0",".","1","5","7">>

\* struct ethhdr: h_dest[6], h_source[6], h_proto
OFF_h_dest == 0
OFF_h_source == 6
OFF_h_proto == 12
SIZEOF_ethhdr == 14

\* struct arp_hdr (packed), offsets within struct arp_packet
OFF_arp_hd == 14
OFF_arp_pr == 16
OFF_arp_hdl == 18
OFF_arp_prl == 19
OFF_arp_op == 20
OFF_arp_sha == 22
OFF_arp_spa == 28
OFF_arp_dha == 32
OFF_arp_dpa == 38
SIZEOF_arp_hdr == 28

\* sizeof(struct arp_packet)
SIZEOF_arp_packet == SIZEOF_ethhdr + SIZEOF_arp_hdr

(* ------------------------------------------------------------------ *)
(* Bytes and memory                                                     *)
(* ------------------------------------------------------------------ *)

Byte == 0..255

Min(a, b) == IF a < b THEN a ELSE b

\* memcpy(dst + off, src, n)
memcpy(dst, off, src, n) ==
    [i \in 1..Len(dst) |-> IF i > off /\ i <= off + n THEN src[i - off] ELSE dst[i]]

\* memset(dst + off, c, n)
memset(dst, off, c, n) ==
    [i \in 1..Len(dst) |-> IF i > off /\ i <= off + n THEN c ELSE dst[i]]

\* the n bytes at buf + off
bytes_at(buf, off, n) == [i \in 1..n |-> buf[off + i]]

swab16(x) == (x % 256) * 256 + (x \div 256)

\* __cpu_to_be16 left out: the value stays in host order
cpu_to_be16_Identity(le, x) == x % 65536

\* __cpu_to_be16 on a host of the given byte order
cpu_to_be16(le, x) == IF le THEN swab16(x % 65536) ELSE x % 65536

\* __be16_to_cpu left out: the field is used as it lies in memory
be16_to_cpu_Identity(le, x) == x % 65536

\* __be16_to_cpu
be16_to_cpu(le, x) == IF le THEN swab16(x % 65536) ELSE x % 65536

\* a 16-bit field read from memory by the host
load16(le, buf, off) ==
    IF le THEN buf[off + 1] + 256 * buf[off + 2]
          ELSE 256 * buf[off + 1] + buf[off + 2]

\* a 16-bit field stored to memory by the host
store16(le, buf, off, x) ==
    [i \in 1..Len(buf) |->
        IF i = off + 1 THEN (IF le THEN x % 256 ELSE x \div 256)
        ELSE IF i = off + 2 THEN (IF le THEN x \div 256 ELSE x % 256)
        ELSE buf[i]]

\* a one-byte field stored to memory
store8(buf, off, x) == [i \in 1..Len(buf) |-> IF i = off + 1 THEN x % 256 ELSE buf[i]]

(* ------------------------------------------------------------------ *)
(* inet_pton(AF_INET, ...): dotted decimal to four bytes                *)
(* ------------------------------------------------------------------ *)

Digits == <<"0","1","2","3","4","5","6","7","8","9">>

IsDigit(c) == \E d \in 1..10 : Digits[d] = c

DigitVal(c) == (CHOOSE d \in 1..10 : Digits[d] = c) - 1

\* st = [ok, octets, cur, seen]: octets done, the octet being read, its digits
RECURSIVE pton_scan(_, _, _)
pton_scan(s, i, st) ==
    IF ~st.ok THEN st
    ELSE IF i > Len(s) THEN
        IF st.seen > 0 /\ Len(st.octets) = 3
        THEN [st EXCEPT !.octets = Append(st.octets, st.cur)]
        ELSE [st EXCEPT !.ok = FALSE]
    ELSE IF IsDigit(s[i]) THEN
        LET v == st.cur * 10 + DigitVal(s[i]) IN
        IF v > 255 \/ (st.seen > 0 /\ st.cur = 0)
        THEN [st EXCEPT !.ok = FALSE]
        ELSE pton_scan(s, i + 1, [st EXCEPT !.cur = v, !.seen = st.seen + 1])
    ELSE IF s[i] = "." /\ st.seen > 0 /\ Len(st.octets) < 3 THEN
        pton_scan(s, i + 1, [st EXCEPT !.octets = Append(st.octets, st.cur),
                                       !.cur = 0, !.seen = 0])
    ELSE [st EXCEPT !.ok = FALSE]

\* the buffer after inet_pton(AF_INET, s, buf + off): untouched when s is malformed
inet_pton(s, buf, off) ==
    LET st == pton_scan(s, 1, [ok |-> TRUE, octets |-> <<>>, cur |-> 0, seen |-> 0]) IN
    IF st.ok THEN memcpy(buf, off, st.octets, INET_ADDR_LEN) ELSE buf

(* ------------------------------------------------------------------ *)
(* What the wire and the device can deliver                             *)
(* ------------------------------------------------------------------ *)

BCAST_MAC == <<255, 255, 255, 255, 255, 255>>
ZERO_MAC == <<0, 0, 0, 0, 0, 0>>
\* aa:bb:cc:dd:ee:ff and 02:00:00:00:00:01
LocalMacs == {<<170, 187, 204, 221, 238, 255>>, <<2, 0, 0, 0, 0, 1>>}
\* 11:22:33:44:55:66
PEER_MAC == <<17, 34, 51, 68, 85, 102>>
OTHER_MAC == <<2, 0, 0, 0, 0, 9>>
IP_250 == <<172, 16, 60, 250>>
IP_157 == <<172, 16, 60, 157>>
IP_1 == <<172, 16, 60, 1>>
IP_7 == <<172, 16, 60, 7>>

\* 16 bits as they travel: most significant byte first
Wire16(x) == <<x \div 256, x % 256>>

\* an Ethernet + ARP frame as the peer puts it on the wire
WireFrame(dst, src, proto, hd, pr, hdl, prl, op, sha, spa, dha, dpa) ==
    dst \o src \o Wire16(proto) \o Wire16(hd) \o Wire16(pr) \o <<hdl, prl>>
        \o Wire16(op) \o sha \o spa \o dha \o dpa

\* who-has 172.16.60.250 tell 172.16.60.157
FrameReqForUs ==
    WireFrame(BCAST_MAC, PEER_MAC, ETH_P_ARP, 1, ETH_P_IP, 6, 4, ARPOP_REQUEST,
              PEER_MAC, IP_157, ZERO_MAC, IP_250)

\* who-has 172.16.60.1 tell 172.16.60.7
FrameReqOther ==
    WireFrame(BCAST_MAC, OTHER_MAC, ETH_P_ARP, 1, ETH_P_IP, 6, 4, ARPOP_REQUEST,
              OTHER_MAC, IP_7, ZERO_MAC, IP_1)

\* 172.16.60.157 is-at 11:22:33:44:55:66
FrameReply ==
    WireFrame(<<170, 187, 204, 221, 238, 255>>, PEER_MAC, ETH_P_ARP, 1, ETH_P_IP, 6, 4,
              ARPOP_REPLY, PEER_MAC, IP_157, <<170, 187, 204, 221, 238, 255>>, IP_250)

\* ARP ethertype, nothing else standard: hd 6, pr 0x86dd, lengths 8 and 16, opcode 0x0903
FrameOdd ==
    WireFrame(OTHER_MAC, PEER_MAC, ETH_P_ARP, 6, 34525, 8, 16, 2307,
              OTHER_MAC, IP_1, PEER_MAC, IP_7)

\* an IPv4 frame: its payload bytes lie where an ARP message would
FrameIP ==
    WireFrame(<<170, 187, 204, 221, 238, 255>>, PEER_MAC, ETH_P_IP, 17664, 84, 0, 0,
              16384, <<64, 1, 0, 0, 172, 16>>, <<60, 157, 172, 16>>,
              <<60, 250, 8, 0, 0, 0>>, <<0, 1, 0, 1>>)

\* ethertype 0x0608: the ARP ethertype with its bytes exchanged
FrameSwapped ==
    WireFrame(BCAST_MAC, PEER_MAC, swab16(ETH_P_ARP), 1, ETH_P_IP, 6, 4, ARPOP_REQUEST,
              PEER_MAC, IP_157, ZERO_MAC, IP_250)

Trunc(f, n) == SubSeq(f, 1, Min(n, Len(f)))

\* f followed by trailer bytes 0xde, 0xad, ... up to n bytes
Pad(f, n) == [i \in 1..n |-> IF i <= Len(f) THEN f[i] ELSE 222 - 49 * ((i - Len(f) - 1) % 2)]

\* the frames read() can return
InFrames ==
    {Trunc(FrameReqForUs, n) : n \in {0, 13, 14, 41, 42}}
        \cup {Pad(FrameOdd, MaxFrameLen)}
        \cup {FrameReqOther, FrameReply, FrameOdd, FrameIP, Trunc(FrameIP, 14),
              FrameSwapped}

\* what the automatic array pckt_buf may hold where read() has not written: zeros
\* (its content at the start), what an earlier call left on the stack (StaleBuf),
\* or what the previous pass of the loop left (ReadOutcomes adds that)
ZeroBuf == [i \in 1..MaxFrameLen |-> 0]
StaleBuf == Pad(FrameReqOther, MaxFrameLen)
Junk == {StaleBuf}

(* ------------------------------------------------------------------ *)
(* State                                                                *)
(* ------------------------------------------------------------------ *)

VARIABLES
    mode,         \* MODE: 0 wait_n_reply, 1 req_n_wait
    hostLE,       \* the host is little-endian
    pc,           \* where the process is
    fd,           \* tapfd: "none", "open", "attached", "closed"
    mac,          \* ifr.ifr_hwaddr.sa_data, its first six bytes
    pckt_buf,     \* the receive buffer, its first MaxFrameLen bytes
    rep_packet,   \* wait_n_reply's reply packet
    req_packet,   \* req_n_wait's request packet
    num,          \* wait_n_reply's static counter
    rcvd,         \* the frames read() returned, in order
    wire,         \* the frames write() sent, each with Len(rcvd) at that moment
    stdout,       \* the labels printed before each packet dump
    perr,         \* the tag perror printed, "" when none
    exit_status,  \* the exit status, read when pc = "exited"
    failed,       \* a system call has returned an error
    codec         \* a frame taken through the struct layout and back (CodecSpec)

vars == <<codec, mode, hostLE, pc, fd, mac, pckt_buf, rep_packet, req_packet, num, rcvd,
          wire, stdout, perr, exit_status, failed>>

\* no frame in the codec
NoCodec == [stage |-> "idle", f |-> <<>>, bytes |-> <<>>, back |-> <<>>]

\* the process at the start of main
InitProcess ==
    /\ mode \in {0, 1}
    /\ hostLE \in BOOLEAN
    /\ pc = "open"
    /\ fd = "none"
    /\ mac = <<>>
    /\ pckt_buf = ZeroBuf
    /\ rep_packet = <<>>
    /\ req_packet = <<>>
    /\ num = 0
    /\ rcvd = <<>>
    /\ wire = <<>>
    /\ stdout = <<>>
    /\ perr = ""
    /\ exit_status = 0
    /\ failed = FALSE

Init == InitProcess /\ codec = NoCodec

(* ------------------------------------------------------------------ *)
(* ASSERT and the system calls                                          *)
(* ------------------------------------------------------------------ *)

\* ASSERT that prints and goes on: perror(tag) without exit(1)
ASSERT_NoExit(val, tag) == [exit |-> FALSE, msg |-> tag, status |-> 1]

\* ASSERT(val, tag): perror(tag) and exit(1) when val holds
ASSERT(val, tag) == [exit |-> val, msg |-> tag, status |-> 1]

\* the process ends as a says
Die(a) ==
    /\ pc' = "exited"
    /\ perr' = a.msg
    /\ exit_status' = a.status

\* read(tapfd, buf, sizeof(pckt_buf)): an error, or a frame laid over the buffer,
\* whose bytes past the frame keep whatever the array held
read_into(old, f) ==
    LET n == Min(Len(f), PCKT_BUF_SIZE) IN
    [i \in 1..Len(old) |-> IF i <= n THEN f[i] ELSE old[i]]

ReadOutcomes(buf) ==
    {[rc |-> -1, buf |-> buf, frame |-> <<>>]}
        \cup {[rc |-> Min(Len(f), PCKT_BUF_SIZE), buf |-> read_into(j, f), frame |-> f] :
                f \in InFrames, j \in Junk \cup {buf}}

\* not_arp without __cpu_to_be16: h_proto compared with ETH_P_ARP in host order
not_arp_HostOrder(le, buf) == load16(le, buf, OFF_h_proto) # ETH_P_ARP

\* not_arp that also drops every ARP frame whose opcode is not reply
not_arp_OrNotReply(le, buf) ==
    \/ load16(le, buf, OFF_h_proto) # cpu_to_be16(le, ETH_P_ARP)
    \/ load16(le, buf, OFF_arp_op) # cpu_to_be16(le, ARPOP_REPLY)

\* ((struct ethhdr *)pckt_buf)->h_proto != __cpu_to_be16(ETH_P_ARP)
not_arp(le, buf) == load16(le, buf, OFF_h_proto) # cpu_to_be16(le, ETH_P_ARP)

(* ------------------------------------------------------------------ *)
(* main                                                                 *)
(* ------------------------------------------------------------------ *)

\* tapfd = open("/dev/net/tun", O_RDWR); ASSERT(tapfd < 0, "tap open")
Open ==
    /\ pc = "open"
    /\ \E rc \in {-1, 3} :
        LET a == ASSERT(rc < 0, "tap open") IN
        /\ failed' = (failed \/ rc < 0)
        /\ fd' = IF rc < 0 THEN fd ELSE "open"
        /\ IF a.exit THEN Die(a)
           ELSE pc' = "tunsetiff" /\ UNCHANGED <<perr, exit_status>>
    /\ UNCHANGED <<codec, mode, hostLE, mac, pckt_buf, rep_packet, req_packet, num, rcvd,
                   wire, stdout>>

\* TunSetIff without its ASSERT: the result of ioctl(TUNSETIFF) is ignored
TunSetIff_Unchecked ==
    /\ pc = "tunsetiff"
    /\ \E rc \in {-1, 0} :
        /\ failed' = (failed \/ rc < 0)
        /\ fd' = IF rc < 0 THEN fd ELSE "attached"
        /\ pc' = "hwaddr"
        /\ UNCHANGED <<perr, exit_status>>
    /\ UNCHANGED <<codec, mode, hostLE, mac, pckt_buf, rep_packet, req_packet, num, rcvd,
                   wire, stdout>>

\* ASSERT(ioctl(tapfd, TUNSETIFF, &ifr) < 0, "tap ioctl")
TunSetIff ==
    /\ pc = "tunsetiff"
    /\ \E rc \in {-1, 0} :
        LET a == ASSERT(rc < 0, "tap ioctl") IN
        /\ failed' = (failed \/ rc < 0)
        /\ fd' = IF rc < 0 THEN fd ELSE "attached"
        /\ IF a.exit THEN Die(a)
           ELSE pc' = "hwaddr" /\ UNCHANGED <<perr, exit_status>>
    /\ UNCHANGED <<codec, mode, hostLE, mac, pckt_buf, rep_packet, req_packet, num, rcvd,
                   wire, stdout>>

\* ASSERT(ioctl(tapfd, SIOCGIFHWADDR, &ifr) < 0, "tap hwaddr"); print_mac(...);
\* if (MODE) req_n_wait(...) else wait_n_reply(...): up to the engine's first system call
GetHwAddr ==
    /\ pc = "hwaddr"
    /\ \E rc \in {-1, 0}, hw \in LocalMacs :
        LET a == ASSERT(rc < 0, "tap hwaddr") IN
        /\ failed' = (failed \/ rc < 0)
        /\ mac' = IF rc < 0 THEN mac ELSE hw
        /\ IF a.exit THEN Die(a) /\ UNCHANGED stdout
           ELSE /\ pc' = IF mode # 0 THEN "q_write" ELSE "r_read"
                /\ stdout' = Append(stdout, <<"mac", 0>>)
                /\ UNCHANGED <<perr, exit_status>>
    /\ UNCHANGED <<codec, mode, hostLE, fd, pckt_buf, rep_packet, req_packet, num, rcvd, wire>>

\* close(tapfd) and the end of main: int main falls off its end, status 0
Close ==
    /\ pc = "close"
    /\ fd' = "closed"
    /\ pc' = "exited"
    /\ exit_status' = 0
    /\ UNCHANGED <<codec, mode, hostLE, mac, pckt_buf, rep_packet, req_packet, num, rcvd,
                   wire, stdout, perr, failed>>

(* ------------------------------------------------------------------ *)
(* wait_n_reply                                                         *)
(* ------------------------------------------------------------------ *)

\* BuildReply without the exchange of the protocol addresses: the reply keeps the
\* request's arp_spa and arp_dpa
BuildReply_NoIpSwap(le, buf, hw) ==
    LET sender_mac == bytes_at(buf, OFF_arp_sha, ETHER_ADDR_LEN)
        r0 == bytes_at(buf, 0, SIZEOF_arp_packet)
        r1 == memcpy(r0, OFF_h_source, hw, ETHER_ADDR_LEN)
        r2 == memcpy(r1, OFF_h_dest, sender_mac, ETHER_ADDR_LEN)
        r3 == store16(le, r2, OFF_arp_op, cpu_to_be16(le, ARPOP_REPLY))
        r4 == memcpy(r3, OFF_arp_sha, hw, ETHER_ADDR_LEN)
    IN  memcpy(r4, OFF_arp_dha, sender_mac, ETHER_ADDR_LEN)

\* BuildReply that answers with the configured address: arp_spa from DEVICE_IP
\* instead of the request's arp_dpa
BuildReply_DeviceIp(le, buf, hw) ==
    LET sender_mac == bytes_at(buf, OFF_arp_sha, ETHER_ADDR_LEN)
        sender_ip == bytes_at(buf, OFF_arp_spa, INET_ADDR_LEN)
        r0 == bytes_at(buf, 0, SIZEOF_arp_packet)
        r1 == memcpy(r0, OFF_h_source, hw, ETHER_ADDR_LEN)
        r2 == memcpy(r1, OFF_h_dest, sender_mac, ETHER_ADDR_LEN)
        r3 == store16(le, r2, OFF_arp_op, cpu_to_be16(le, ARPOP_REPLY))
        r4 == memcpy(r3, OFF_arp_sha, hw, ETHER_ADDR_LEN)
        r5 == inet_pton(DEVICE_IP, r4, OFF_arp_spa)
        r6 == memcpy(r5, OFF_arp_dha, sender_mac, ETHER_ADDR_LEN)
    IN  memcpy(r6, OFF_arp_dpa, sender_ip, INET_ADDR_LEN)

\* BuildReply without line 137: arp_sha stays the requester's hardware address
BuildReply_KeepSha(le, buf, hw) ==
    LET sender_mac == bytes_at(buf, OFF_arp_sha, ETHER_ADDR_LEN)
        sender_ip == bytes_at(buf, OFF_arp_spa, INET_ADDR_LEN)
        recv_ip == bytes_at(buf, OFF_arp_dpa, INET_ADDR_LEN)
        r0 == bytes_at(buf, 0, SIZEOF_arp_packet)
        r1 == memcpy(r0, OFF_h_source, hw, ETHER_ADDR_LEN)
        r2 == memcpy(r1, OFF_h_dest, sender_mac, ETHER_ADDR_LEN)
        r3 == store16(le, r2, OFF_arp_op, cpu_to_be16(le, ARPOP_REPLY))
        r5 == memcpy(r3, OFF_arp_spa, recv_ip, INET_ADDR_LEN)
        r6 == memcpy(r5, OFF_arp_dha, sender_mac, ETHER_ADDR_LEN)
    IN  memcpy(r6, OFF_arp_dpa, sender_ip, INET_ADDR_LEN)

\* BuildReply that writes a standard header instead of keeping the request's:
\* hardware space 1, protocol space 0x0800, lengths 6 and 4
BuildReply_Normalizes(le, buf, hw) ==
    LET sender_mac == bytes_at(buf, OFF_arp_sha, ETHER_ADDR_LEN)
        sender_ip == bytes_at(buf, OFF_arp_spa, INET_ADDR_LEN)
        recv_ip == bytes_at(buf, OFF_arp_dpa, INET_ADDR_LEN)
        r0 == bytes_at(buf, 0, SIZEOF_arp_packet)
        n1 == store16(le, r0, OFF_arp_hd, cpu_to_be16(le, ETH_P_802_3))
        n2 == store16(le, n1, OFF_arp_pr, cpu_to_be16(le, ETH_P_IP))
        n3 == store8(n2, OFF_arp_hdl, ETHER_ADDR_LEN)
        n4 == store8(n3, OFF_arp_prl, INET_ADDR_LEN)
        r1 == memcpy(n4, OFF_h_source, hw, ETHER_ADDR_LEN)
        r2 == memcpy(r1, OFF_h_dest, sender_mac, ETHER_ADDR_LEN)
        r3 == store16(le, r2, OFF_arp_op, cpu_to_be16(le, ARPOP_REPLY))
        r4 == memcpy(r3, OFF_arp_sha, hw, ETHER_ADDR_LEN)
        r5 == memcpy(r4, OFF_arp_spa, recv_ip, INET_ADDR_LEN)
        r6 == memcpy(r5, OFF_arp_dha, sender_mac, ETHER_ADDR_LEN)
    IN  memcpy(r6, OFF_arp_dpa, sender_ip, INET_ADDR_LEN)

\* the reply built from the request in buf: memcpy of the whole packet, then the
\* Ethernet addresses, the opcode and the four ARP addresses
BuildReply(le, buf, hw) ==
    LET sender_mac == bytes_at(buf, OFF_arp_sha, ETHER_ADDR_LEN)
        sender_ip == bytes_at(buf, OFF_arp_spa, INET_ADDR_LEN)
        recv_mac == hw
        recv_ip == bytes_at(buf, OFF_arp_dpa, INET_ADDR_LEN)
        r0 == bytes_at(buf, 0, SIZEOF_arp_packet)
        r1 == memcpy(r0, OFF_h_source, recv_mac, ETHER_ADDR_LEN)
        r2 == memcpy(r1, OFF_h_dest, sender_mac, ETHER_ADDR_LEN)
        r3 == store16(le, r2, OFF_arp_op, cpu_to_be16(le, ARPOP_REPLY))
        r4 == memcpy(r3, OFF_arp_sha, recv_mac, ETHER_ADDR_LEN)
        r5 == memcpy(r4, OFF_arp_spa, recv_ip, INET_ADDR_LEN)
        r6 == memcpy(r5, OFF_arp_dha, sender_mac, ETHER_ADDR_LEN)
    IN  memcpy(r6, OFF_arp_dpa, sender_ip, INET_ADDR_LEN)

\* one pass of the loop up to write(): read, the ARP test, the two labels, the reply
ReadRequest ==
    /\ pc = "r_read"
    /\ Len(rcvd) < MaxReads
    /\ \E r \in ReadOutcomes(pckt_buf) :
        LET a == ASSERT(r.rc < 0, "read packet") IN
        /\ failed' = (failed \/ r.rc < 0)
        /\ pckt_buf' = r.buf
        /\ rcvd' = IF r.rc < 0 THEN rcvd ELSE Append(rcvd, r.frame)
        /\ IF a.exit THEN Die(a) /\ UNCHANGED <<rep_packet, num, stdout>>
           ELSE IF not_arp(hostLE, r.buf)
           THEN UNCHANGED <<pc, rep_packet, num, stdout, perr, exit_status>>
           ELSE /\ rep_packet' = BuildReply(hostLE, r.buf, mac)
                /\ stdout' = stdout \o <<<<"req.1", num>>, <<"rep.2", num>>>>
                /\ num' = num + 1
                /\ pc' = "r_write"
                /\ UNCHANGED <<perr, exit_status>>
    /\ UNCHANGED <<codec, mode, hostLE, fd, mac, req_packet, wire>>

\* ASSERT(write(tapfd, &rep_packet, sizeof(struct arp_packet)) < 0, "write packet")
WriteReply ==
    /\ pc = "r_write"
    /\ \E rc \in {-1, SIZEOF_arp_packet} :
        LET a == ASSERT(rc < 0, "write packet") IN
        /\ failed' = (failed \/ rc < 0)
        /\ wire' = IF rc < 0 THEN wire
                   ELSE Append(wire, [frame |-> bytes_at(rep_packet, 0, SIZEOF_arp_packet),
                                      after |-> Len(rcvd)])
        /\ IF a.exit THEN Die(a)
           ELSE pc' = "r_read" /\ UNCHANGED <<perr, exit_status>>
    /\ UNCHANGED <<codec, mode, hostLE, fd, mac, pckt_buf, rep_packet, req_packet, num, rcvd,
                   stdout>>

(* ------------------------------------------------------------------ *)
(* req_n_wait                                                           *)
(* ------------------------------------------------------------------ *)

\* BuildRequest without __cpu_to_be16 on the opcode: arp_op stored in host order
BuildRequest_HostOrder(le, garbage, hw) ==
    LET q0 == bytes_at(garbage, 0, SIZEOF_arp_packet)
        q1 == store16(le, q0, OFF_h_proto, cpu_to_be16(le, ETH_P_ARP))
        q2 == memcpy(q1, OFF_h_source, hw, ETHER_ADDR_LEN)
        q3 == memset(q2, OFF_h_dest, 255, ETHER_ADDR_LEN)
        q4 == store16(le, q3, OFF_arp_hd, cpu_to_be16(le, ETH_P_802_3))
        q5 == store16(le, q4, OFF_arp_pr, cpu_to_be16(le, ETH_P_IP))
        q6 == store8(q5, OFF_arp_hdl, ETHER_ADDR_LEN)
        q7 == store8(q6, OFF_arp_prl, INET_ADDR_LEN)
        q8 == store16(le, q7, OFF_arp_op, ARPOP_REQUEST)
        q9 == memcpy(q8, OFF_arp_sha, hw, ETHER_ADDR_LEN)
        q10 == inet_pton(DEVICE_IP, q9, OFF_arp_spa)
        q11 == memset(q10, OFF_arp_dha, 255, ETHER_ADDR_LEN)
    IN  inet_pton(TARGET_IP, q11, OFF_arp_dpa)

\* the request, written field by field over whatever the automatic struct held
BuildRequest(le, garbage, hw) ==
    LET q0 == bytes_at(garbage, 0, SIZEOF_arp_packet)
        q1 == store16(le, q0, OFF_h_proto, cpu_to_be16(le, ETH_P_ARP))
        q2 == memcpy(q1, OFF_h_source, hw, ETHER_ADDR_LEN)
        q3 == memset(q2, OFF_h_dest, 255, ETHER_ADDR_LEN)
        q4 == store16(le, q3, OFF_arp_hd, cpu_to_be16(le, ETH_P_802_3))
        q5 == store16(le, q4, OFF_arp_pr, cpu_to_be16(le, ETH_P_IP))
        q6 == store8(q5, OFF_arp_hdl, ETHER_ADDR_LEN)
        q7 == store8(q6, OFF_arp_prl, INET_ADDR_LEN)
        q8 == store16(le, q7, OFF_arp_op, cpu_to_be16(le, ARPOP_REQUEST))
        q9 == memcpy(q8, OFF_arp_sha, hw, ETHER_ADDR_LEN)
        q10 == inet_pton(DEVICE_IP, q9, OFF_arp_spa)
        q11 == memset(q10, OFF_arp_dha, 255, ETHER_ADDR_LEN)
    IN  inet_pton(TARGET_IP, q11, OFF_arp_dpa)

\* req_n_wait up to its write(): build the request, print it, send it
SendRequest ==
    /\ pc = "q_write"
    /\ \E g \in Junk, rc \in {-1, SIZEOF_arp_packet} :
        LET a == ASSERT(rc < 0, "write packet") IN
        /\ req_packet' = BuildRequest(hostLE, g, mac)
        /\ stdout' = Append(stdout, <<"req0.1", 0>>)
        /\ failed' = (failed \/ rc < 0)
        /\ wire' = IF rc < 0 THEN wire
                   ELSE Append(wire, [frame |-> bytes_at(req_packet', 0, SIZEOF_arp_packet),
                                      after |-> Len(rcvd)])
        /\ IF a.exit THEN Die(a)
           ELSE pc' = "q_read" /\ UNCHANGED <<perr, exit_status>>
    /\ UNCHANGED <<codec, mode, hostLE, fd, mac, pckt_buf, rep_packet, num, rcvd>>

\* ReadReply that sends the request again for every frame it drops
ReadReply_Retry ==
    /\ pc = "q_read"
    /\ Len(rcvd) < MaxReads
    /\ \E r \in ReadOutcomes(pckt_buf) :
        LET a == ASSERT(r.rc < 0, "read packet") IN
        /\ failed' = (failed \/ r.rc < 0)
        /\ pckt_buf' = r.buf
        /\ rcvd' = IF r.rc < 0 THEN rcvd ELSE Append(rcvd, r.frame)
        /\ IF a.exit THEN Die(a) /\ UNCHANGED <<stdout, wire>>
           ELSE IF not_arp(hostLE, r.buf)
           THEN /\ wire' = Append(wire, [frame |-> bytes_at(req_packet, 0, SIZEOF_arp_packet),
                                         after |-> Len(rcvd')])
                /\ UNCHANGED <<pc, stdout, perr, exit_status>>
           ELSE /\ stdout' = Append(stdout, <<"rep0.2", 0>>)
                /\ pc' = "close"
                /\ UNCHANGED <<perr, exit_status, wire>>
    /\ UNCHANGED <<codec, mode, hostLE, fd, mac, rep_packet, req_packet, num>>

\* one pass of the wait loop: read, the ARP test, and on an ARP frame print and break
ReadReply ==
    /\ pc = "q_read"
    /\ Len(rcvd) < MaxReads
    /\ \E r \in ReadOutcomes(pckt_buf) :
        LET a == ASSERT(r.rc < 0, "read packet") IN
        /\ failed' = (failed \/ r.rc < 0)
        /\ pckt_buf' = r.buf
        /\ rcvd' = IF r.rc < 0 THEN rcvd ELSE Append(rcvd, r.frame)
        /\ IF a.exit THEN Die(a) /\ UNCHANGED stdout
           ELSE IF not_arp(hostLE, r.buf)
           THEN UNCHANGED <<pc, stdout, perr, exit_status>>
           ELSE /\ stdout' = Append(stdout, <<"rep0.2", 0>>)
                /\ pc' = "close"
                /\ UNCHANGED <<perr, exit_status>>
    /\ UNCHANGED <<codec, mode, hostLE, fd, mac, rep_packet, req_packet, num, wire>>

(* ------------------------------------------------------------------ *)
(* The specification                                                    *)
(* ------------------------------------------------------------------ *)

Next ==
    \/ Open
    \/ TunSetIff
    \/ GetHwAddr
    \/ ReadRequest
    \/ WriteReply
    \/ SendRequest
    \/ ReadReply
    \/ Close

\* the MODE 1 build alone. Once read() has returned an ARP frame the process runs on
\* to close() and the end of main by itself: Close is taken whenever it is enabled.
InitRequester == Init /\ mode = 1

NextRequester ==
    \/ Open
    \/ TunSetIff
    \/ GetHwAddr
    \/ SendRequest
    \/ ReadReply
    \/ Close

RequesterSpec == InitRequester /\ [][NextRequester]_vars /\ WF_vars(Close)

Spec == Init /\ [][Next]_vars

(* ------------------------------------------------------------------ *)
(* The frame codec: a frame's field values stored through the packed    *)
(* structs, as req_n_wait stores them, and read back, as the print      *)
(* functions read them                                                  *)
(* ------------------------------------------------------------------ *)

\* field values: 16-bit fields as numbers, addresses as bytes
CodecFrames ==
    [h_dest : {BCAST_MAC}, h_source : {PEER_MAC}, h_proto : {ETH_P_ARP, 1544, 255},
     arp_hd : {1, 256}, arp_pr : {ETH_P_IP, 34525}, arp_hdl : {6}, arp_prl : {4},
     arp_op : {ARPOP_REQUEST, ARPOP_REPLY, 2307},
     arp_sha : {PEER_MAC, OTHER_MAC}, arp_spa : {IP_157},
     arp_dha : {ZERO_MAC}, arp_dpa : {IP_250, IP_1}]

\* the struct after each field of f is assigned over whatever it held
encode(le, garbage, f) ==
    LET e0 == bytes_at(garbage, 0, SIZEOF_arp_packet)
        e1 == store16(le, e0, OFF_h_proto, cpu_to_be16(le, f.h_proto))
        e2 == memcpy(e1, OFF_h_source, f.h_source, ETHER_ADDR_LEN)
        e3 == memcpy(e2, OFF_h_dest, f.h_dest, ETHER_ADDR_LEN)
        e4 == store16(le, e3, OFF_arp_hd, cpu_to_be16(le, f.arp_hd))
        e5 == store16(le, e4, OFF_arp_pr, cpu_to_be16(le, f.arp_pr))
        e6 == store8(e5, OFF_arp_hdl, f.arp_hdl)
        e7 == store8(e6, OFF_arp_prl, f.arp_prl)
        e8 == store16(le, e7, OFF_arp_op, cpu_to_be16(le, f.arp_op))
        e9 == memcpy(e8, OFF_arp_sha, f.arp_sha, ETHER_ADDR_LEN)
        e10 == memcpy(e9, OFF_arp_spa, f.arp_spa, INET_ADDR_LEN)
        e11 == memcpy(e10, OFF_arp_dha, f.arp_dha, ETHER_ADDR_LEN)
    IN  memcpy(e11, OFF_arp_dpa, f.arp_dpa, INET_ADDR_LEN)

\* the field values read from the struct laid over b
decode(le, b) ==
    [h_dest |-> bytes_at(b, OFF_h_dest, ETHER_ADDR_LEN),
     h_source |-> bytes_at(b, OFF_h_source, ETHER_ADDR_LEN),
     h_proto |-> be16_to_cpu(le, load16(le, b, OFF_h_proto)),
     arp_hd |-> be16_to_cpu(le, load16(le, b, OFF_arp_hd)),
     arp_pr |-> be16_to_cpu(le, load16(le, b, OFF_arp_pr)),
     arp_hdl |-> b[OFF_arp_hdl + 1],
     arp_prl |-> b[OFF_arp_prl + 1],
     arp_op |-> be16_to_cpu(le, load16(le, b, OFF_arp_op)),
     arp_sha |-> bytes_at(b, OFF_arp_sha, ETHER_ADDR_LEN),
     arp_spa |-> bytes_at(b, OFF_arp_spa, INET_ADDR_LEN),
     arp_dha |-> bytes_at(b, OFF_arp_dha, ETHER_ADDR_LEN),
     arp_dpa |-> bytes_at(b, OFF_arp_dpa, INET_ADDR_LEN)]

InitCodec ==
    /\ InitProcess
    /\ codec \in {[stage |-> "frame", f |-> f, bytes |-> <<>>, back |-> <<>>] :
                    f \in CodecFrames}

\* this host stores the frame
Encode ==
    /\ codec.stage = "frame"
    /\ \E g \in Junk \cup {ZeroBuf} :
        codec' = [codec EXCEPT !.stage = "encoded", !.bytes = encode(hostLE, g, codec.f)]
    /\ UNCHANGED <<mode, hostLE, pc, fd, mac, pckt_buf, rep_packet, req_packet, num,
                   rcvd, wire, stdout, perr, exit_status, failed>>

\* a host of either byte order reads the 42 bytes
Decode ==
    /\ codec.stage = "encoded"
    /\ \E le \in BOOLEAN :
        codec' = [codec EXCEPT !.stage = "decoded", !.back = decode(le, codec.bytes)]
    /\ UNCHANGED <<mode, hostLE, pc, fd, mac, pckt_buf, rep_packet, req_packet, num,
                   rcvd, wire, stdout, perr, exit_status, failed>>

NextCodec ==
    \/ Encode
    \/ Decode

CodecSpec == InitCodec /\ [][NextCodec]_vars

(* ------------------------------------------------------------------ *)
(* Reading a frame on the wire: the fields of struct arp_packet, 16-bit *)
(* fields most significant byte first                                   *)
(* ------------------------------------------------------------------ *)

net16(f, off) == 256 * f[off + 1] + f[off + 2]

HasEthHdr(f) == Len(f) >= SIZEOF_ethhdr
IsFull(f) == Len(f) >= SIZEOF_arp_packet

f_h_dest(f) == bytes_at(f, OFF_h_dest, ETHER_ADDR_LEN)
f_h_source(f) == bytes_at(f, OFF_h_source, ETHER_ADDR_LEN)
f_h_proto(f) == net16(f, OFF_h_proto)
f_arp_hd(f) == net16(f, OFF_arp_hd)
f_arp_pr(f) == net16(f, OFF_arp_pr)
f_arp_hdl(f) == f[OFF_arp_hdl + 1]
f_arp_prl(f) == f[OFF_arp_prl + 1]
f_arp_op(f) == net16(f, OFF_arp_op)
f_arp_sha(f) == bytes_at(f, OFF_arp_sha, ETHER_ADDR_LEN)
f_arp_spa(f) == bytes_at(f, OFF_arp_spa, INET_ADDR_LEN)
f_arp_dha(f) == bytes_at(f, OFF_arp_dha, ETHER_ADDR_LEN)
f_arp_dpa(f) == bytes_at(f, OFF_arp_dpa, INET_ADDR_LEN)

\* a received frame that carries the ARP ethertype
IsArpFrame(f) == HasEthHdr(f) /\ f_h_proto(f) = ETH_P_ARP

\* the frame the latest read() returned
LastRcvd == rcvd[Len(rcvd)]

\* the frame read before the i-th send
Trigger(i) == rcvd[wire[i].after]

\* the sends that follow a read
Replies == {i \in DOMAIN wire : wire[i].after \in DOMAIN rcvd}

(* ------------------------------------------------------------------ *)
(* Claims                                                               *)
(* ------------------------------------------------------------------ *)

\* C1: every frame wait_n_reply sends after reading a complete ARP-ethertype frame
\* with sender hardware address SH, sender protocol address SP and target protocol
\* address TP has Ethernet source LH (the local hardware address), Ethernet
\* destination SH, opcode 2, ARP sender LH/TP and ARP target SH/SP.
C1_ReplySynthesis ==
    mode = 0 =>
        \A i \in Replies :
            LET rx == Trigger(i)
                tx == wire[i].frame
            IN  (IsFull(rx) /\ IsArpFrame(rx)) =>
                    /\ f_h_source(tx) = mac
                    /\ f_h_dest(tx) = f_arp_sha(rx)
                    /\ f_arp_op(tx) = ARPOP_REPLY
                    /\ f_arp_sha(tx) = mac
                    /\ f_arp_spa(tx) = f_arp_dpa(rx)
                    /\ f_arp_dha(tx) = f_arp_sha(rx)
                    /\ f_arp_dpa(tx) = f_arp_spa(rx)

\* a reply is on the wire for the request of the end-to-end scenario (SH
\* 11:22:33:44:55:66, SP 172.16.60.157, TP 172.16.60.250), and one for a frame whose
\* opcode is not request
C1_Witness ==
    /\ mode = 0
    /\ \E i \in Replies : Trigger(i) = FrameReqForUs /\ f_arp_dpa(wire[i].frame) = IP_157
    /\ \E i \in Replies : Trigger(i) = FrameReply

\* C2: in the responder, reading a frame whose Ethernet protocol field is not the
\* ARP ethertype sends nothing and changes nothing: the counter, the local hardware
\* address, the reply packet, the output and the wire are as before, and the engine
\* is at read() again.
C2_NonArpFiltered ==
    [][(mode = 0 /\ rcvd' # rcvd /\ HasEthHdr(LastRcvd') /\ ~IsArpFrame(LastRcvd')) =>
            /\ pc' = "r_read"
            /\ UNCHANGED <<num, mac, rep_packet, wire, stdout, perr, exit_status, fd>>]_vars

\* after one exchange the responder has read a frame of ethertype 0x0608, and then
\* an IPv4 frame cut to its Ethernet header, and is at read() again
C2_Witness ==
    /\ mode = 0
    /\ pc = "r_read"
    /\ Len(rcvd) = 3
    /\ IsArpFrame(rcvd[1])
    /\ rcvd[2] = FrameSwapped
    /\ rcvd[3] = Trunc(FrameIP, SIZEOF_ethhdr)
    /\ num = 1
    /\ Len(wire) = 1

\* C3: in either engine a read of fewer than 42 bytes (a zero-length read included)
\* is discarded: nothing is decoded or sent for it and the process does not end, so
\* right after it the engine is at read() again (a later failing read may end it).
C3_ShortReadDiscarded ==
    (Len(rcvd) > 0 /\ ~IsFull(LastRcvd)) =>
        \/ pc \in {"r_read", "q_read"}
        \/ pc = "exited" /\ failed /\ perr = "read packet"

\* C4 as stated: every reply of the responder follows a frame whose target protocol
\* address is the configured 172.16.60.250, and advertises that address
C4_RepliesOnlyForDeviceIp ==
    mode = 0 =>
        \A i \in Replies :
            IsFull(Trigger(i)) =>
                /\ f_arp_dpa(Trigger(i)) = IP_250
                /\ f_arp_spa(wire[i].frame) = IP_250

\* C4, amended: the responder never compares the target protocol address with the
\* configured one. Every complete ARP-ethertype frame is answered whatever its TP,
\* and the reply advertises TP itself as its ARP sender protocol address.
C4_RepliesForAnyTarget ==
    mode = 0 =>
        /\ \A i \in Replies :
              IsFull(Trigger(i)) => f_arp_spa(wire[i].frame) = f_arp_dpa(Trigger(i))
        /\ \A k \in DOMAIN rcvd :
              (IsFull(rcvd[k]) /\ IsArpFrame(rcvd[k]) /\ (k < Len(rcvd) \/ pc = "r_read")) =>
                  \E i \in Replies : wire[i].after = k

\* a reply is on the wire for who-has 172.16.60.1, advertising 172.16.60.1
C4_Witness ==
    /\ mode = 0
    /\ \E i \in Replies :
          /\ Trigger(i) = FrameReqOther
          /\ f_arp_spa(wire[i].frame) = IP_1
          /\ IP_1 # IP_250

\* C5: the responder sends exactly one reply for every received ARP-ethertype frame
\* whatever its opcode, every frame it sends has opcode 2, and every frame it sends
\* follows the read of an ARP-ethertype frame.
C5_OneReplyPerArpFrame ==
    mode = 0 =>
        /\ \A i \in DOMAIN wire :
              /\ i \in Replies
              /\ IsArpFrame(Trigger(i))
              /\ f_arp_op(wire[i].frame) = ARPOP_REPLY
              /\ \A j \in DOMAIN wire : wire[j].after = wire[i].after => j = i
        /\ \A k \in DOMAIN rcvd :
              (IsArpFrame(rcvd[k]) /\ (k < Len(rcvd) \/ pc = "r_read")) =>
                  \E i \in Replies : wire[i].after = k

\* C6: a failing open, TUNSETIFF, SIOCGIFHWADDR, read or write ends the process at
\* that step with status 1 and the perror tag of the call; the failing step sends
\* nothing and counts nothing, and nothing at all happens after it.
C6_FailuresFatal ==
    [][/\ failed' => (pc' = "exited" /\ exit_status' = 1 /\ perr' # "")
       /\ (failed' /\ ~failed) => UNCHANGED <<wire, rcvd, num>>
       /\ failed => UNCHANGED vars]_vars

\* the responder has died of a failing write after one complete exchange
C6_Witness ==
    /\ failed
    /\ pc = "exited"
    /\ exit_status = 1
    /\ perr = "write packet"
    /\ Len(wire) = 1
    /\ num = 2

\* C7: the frame req_n_wait sends is, byte for byte in network order: destination
\* ff:ff:ff:ff:ff:ff, source the local hardware address, ethertype 0x0806, hardware
\* space 1, protocol space 0x0800, lengths 6 and 4, opcode 1, sender the local
\* hardware address and 172.16.60.250, target ff:ff:ff:ff:ff:ff and 172.16.60.157.
C7_RequestFraming ==
    mode = 1 =>
        \A i \in DOMAIN wire :
            LET tx == wire[i].frame IN
            /\ Len(tx) = SIZEOF_arp_packet
            /\ f_h_dest(tx) = BCAST_MAC
            /\ f_h_source(tx) = mac
            /\ f_h_proto(tx) = 2054
            /\ f_arp_hd(tx) = 1
            /\ f_arp_pr(tx) = 2048
            /\ f_arp_hdl(tx) = 6
            /\ f_arp_prl(tx) = 4
            /\ f_arp_op(tx) = 1
            /\ f_arp_sha(tx) = mac
            /\ f_arp_spa(tx) = IP_250
            /\ f_arp_dha(tx) = BCAST_MAC
            /\ f_arp_dpa(tx) = IP_157

\* the request is on the wire, sent from a little-endian host
C7_Witness ==
    /\ mode = 1
    /\ hostLE
    /\ Len(wire) = 1
    /\ mac \in LocalMacs

\* C8: after its request the requester drops every frame it reads whose ethertype
\* is not ARP and stays at read(); the first frame whose ethertype is ARP, whatever
\* its opcode and addresses, takes it out of the loop to close(); and once an
\* ARP-ethertype frame has been read the process ends with status 0.
C8_RequesterAcceptance ==
    /\ [][(mode = 1 /\ rcvd' # rcvd /\ HasEthHdr(LastRcvd')) =>
              IF IsArpFrame(LastRcvd')
              THEN pc' = "close" /\ wire' = wire /\ ~failed'
              ELSE pc' = "q_read" /\ wire' = wire /\ stdout' = stdout]_vars
    /\ (mode = 1 /\ \E k \in DOMAIN rcvd : IsArpFrame(rcvd[k]))
           ~> (pc = "exited" /\ exit_status = 0 /\ fd = "closed")

\* the requester has dropped an IPv4 frame, then taken an ARP frame of opcode 0x0903
\* from an unrelated sender as the reply, and ended with status 0
C8_Witness ==
    /\ mode = 1
    /\ pc = "exited"
    /\ exit_status = 0
    /\ Len(rcvd) = 2
    /\ rcvd[1] = FrameIP
    /\ rcvd[2] = FrameOdd
    /\ f_arp_spa(rcvd[2]) # IP_157

\* C9: in requester mode at most one frame is ever sent; it is sent before the first
\* read, and it has been sent whenever the engine is past its write(), however many
\* frames have been read since.
C9_OneShotRequest ==
    mode = 1 =>
        /\ Len(wire) <= 1
        /\ \A i \in DOMAIN wire : wire[i].after = 0
        /\ (Len(rcvd) > 0 \/ pc \in {"q_read", "close"} \/ fd = "closed") => Len(wire) = 1

\* the requester has read two frames it dropped and then an ARP frame, and has ended;
\* one frame was sent
C9_Witness ==
    /\ mode = 1
    /\ pc = "exited"
    /\ exit_status = 0
    /\ Len(rcvd) = 3
    /\ ~IsArpFrame(rcvd[1])
    /\ ~IsArpFrame(rcvd[2])
    /\ IsArpFrame(rcvd[3])
    /\ Len(wire) = 1

\* C10: status 0 is reached only in requester mode, after the request was sent and
\* an ARP-ethertype frame was read; the responder never reaches close(), and ends
\* only by a failing system call.
C10_ExitBehaviour ==
    /\ (pc = "exited" /\ exit_status = 0) =>
          /\ mode = 1
          /\ Len(wire) = 1
          /\ \E k \in DOMAIN rcvd : IsArpFrame(rcvd[k])
    /\ mode = 0 =>
          /\ pc # "close"
          /\ fd # "closed"
          /\ pc = "exited" => (failed /\ exit_status = 1)

\* C11: in requester mode, while no frame read has the ARP ethertype and no system
\* call has failed, the process has not ended and has not left its wait loop,
\* however many frames it has read.
C11_NoTimeout ==
    (mode = 1 /\ ~failed /\ \A k \in DOMAIN rcvd : ~IsArpFrame(rcvd[k])) =>
        /\ pc \notin {"close", "exited"}
        /\ fd # "closed"

\* C12: every frame sent, reply or request, is exactly 42 bytes (14 of Ethernet
\* header, then 28 of ARP message), and on a host of either byte order bytes 12-13
\* are 08 06 and bytes 20-21 are 00 01 for the request, 00 02 for a reply.
C12_WireLayout ==
    \A i \in DOMAIN wire :
        LET tx == wire[i].frame IN
        /\ Len(tx) = 42
        /\ SIZEOF_ethhdr = 14 /\ SIZEOF_arp_hdr = 28 /\ OFF_arp_hd = SIZEOF_ethhdr
        /\ tx[13] = 8 /\ tx[14] = 6
        /\ tx[21] = 0
        /\ tx[22] = IF mode = 1 THEN 1 ELSE 2

\* a little-endian host has sent two replies, the second for a frame longer than 42
\* bytes
C12_Witness ==
    /\ hostLE
    /\ mode = 0
    /\ Len(wire) = 2
    /\ Len(Trigger(2)) > 42

\* C13: a frame whose fields are stored through struct arp_packet and read back
\* from the 42 bytes, by a host of either byte order, has every field as it was:
\* decode(encode(f)) = f.
C13_RoundTrip ==
    codec.stage = "decoded" =>
        /\ Len(codec.bytes) = 42
        /\ codec.back = codec.f

\* a little-endian host has stored and a host has read back a frame whose 16-bit
\* fields all change under a byte exchange
C13_Witness ==
    /\ codec.stage = "decoded"
    /\ hostLE
    /\ codec.f.h_proto = ETH_P_ARP
    /\ codec.f.arp_op = 2307
    /\ codec.f.arp_hd = 256
    /\ codec.back.arp_op = 2307

\* C14: the responder's counter starts at 0 and never decreases; it grows by exactly
\* 1 for each ARP-ethertype frame read and is unchanged by any other frame; the two
\* labels of one exchange carry the same number; and at read() the counter equals
\* the number of replies sent.
C14_ExchangeCounter ==
    /\ [][mode = 0 =>
            /\ num' >= num
            /\ rcvd' # rcvd =>
                  num' = IF IsArpFrame(LastRcvd') THEN num + 1 ELSE num]_vars
    /\ [](mode = 0 =>
            /\ pc = "open" => num = 0
            /\ pc = "r_read" => num = Len(wire)
            /\ \A k \in 1..num :
                  /\ stdout[2 * k] = <<"req.1", k - 1>>
                  /\ stdout[2 * k + 1] = <<"rep.2", k - 1>>)

\* C15: the reply is a function of the frame read and the local hardware address
\* alone: whatever was read before them, two reads of the same frame are answered
\* with the same 42 bytes.
C15_Stateless ==
    mode = 0 =>
        \A i, j \in Replies : Trigger(i) = Trigger(j) => wire[i].frame = wire[j].frame

\* C16: the local hardware address is set once, by SIOCGIFHWADDR before either
\* engine starts, and no read, write or packet construction changes it afterwards;
\* every frame sent in either mode has it as Ethernet source and as ARP sender
\* hardware address.
C16_IdentityReadOnly ==
    /\ [][(mac # <<>> => mac' = mac) /\ (mac' # mac => pc = "hwaddr")]_vars
    /\ [](/\ pc \in {"open", "tunsetiff", "hwaddr"} => (mac = <<>> /\ wire = <<>> /\ rcvd = <<>>)
          /\ pc \in {"r_read", "r_write", "q_write", "q_read", "close"} => mac \in LocalMacs
          /\ \A i \in DOMAIN wire :
                /\ f_h_source(wire[i].frame) = mac
                /\ f_arp_sha(wire[i].frame) = mac)

\* the responder, whose address is 02:00:00:00:00:01, has answered a frame sent to
\* and naming aa:bb:cc:dd:ee:ff, and then a second frame
C16_Witness ==
    /\ mode = 0
    /\ mac = <<2, 0, 0, 0, 0, 1>>
    /\ Len(wire) = 2
    /\ Trigger(1) = FrameReply
    /\ f_h_dest(Trigger(1)) # mac

\* C17: nothing is read or written before open, TUNSETIFF and SIOCGIFHWADDR have all
\* succeeded; one engine runs, the one MODE selects; close() comes only after
\* req_n_wait has sent its request, accepted a frame and returned, and nothing is
\* read or written after it.
C17_Lifecycle ==
    /\ [][/\ (rcvd' # rcvd \/ wire' # wire) => (fd = "attached" /\ fd' = "attached")
          /\ fd = "closed" => UNCHANGED <<rcvd, wire, fd>>]_vars
    /\ [](/\ (pc \in {"r_read", "r_write", "q_write", "q_read", "close"}
                \/ rcvd # <<>> \/ wire # <<>>) =>
                (fd \in {"attached", "closed"} /\ mac \in LocalMacs)
          /\ pc \in {"r_read", "r_write"} => mode = 0
          /\ pc \in {"q_write", "q_read", "close"} => mode = 1
          /\ \A k \in DOMAIN stdout :
                stdout[k][1] \in (IF mode = 0 THEN {"mac", "req.1", "rep.2"}
                                              ELSE {"mac", "req0.1", "rep0.2"})
          /\ mode = 1 => num = 0
          /\ mode = 0 => \A i \in DOMAIN wire : wire[i].after > 0
          /\ fd = "closed" =>
                /\ mode = 1
                /\ pc = "exited" /\ exit_status = 0
                /\ Len(wire) = 1
                /\ Len(rcvd) > 0
                /\ stdout[Len(stdout)] = <<"rep0.2", 0>>)

\* the requester has ended after close(), having read three frames since its request
C17_Witness ==
    /\ fd = "closed"
    /\ mode = 1
    /\ Len(rcvd) = 3
    /\ Len(wire) = 1
    /\ pc = "exited"

\* C18: the reply keeps the bytes the frame read has at offsets 12-19 (ethertype,
\* hardware and protocol address space, hardware and protocol length), and is 42
\* bytes long whatever follows byte 41 of the frame read.
C18_ReplyKeepsHeader ==
    mode = 0 =>
        \A i \in Replies :
            LET rx == Trigger(i)
                tx == wire[i].frame
            IN  /\ Len(tx) = SIZEOF_arp_packet
                /\ \A b \in (OFF_h_proto + 1)..OFF_arp_op : b <= Len(rx) => tx[b] = rx[b]
                /\ IsFull(rx) =>
                      /\ f_h_proto(tx) = f_h_proto(rx)
                      /\ f_arp_hd(tx) = f_arp_hd(rx)
                      /\ f_arp_pr(tx) = f_arp_pr(rx)
                      /\ f_arp_hdl(tx) = f_arp_hdl(rx)
                      /\ f_arp_prl(tx) = f_arp_prl(rx)

\* a reply is on the wire for a frame of more than 42 bytes with hardware space 6,
\* protocol space 0x86dd and lengths 8 and 16
C18_Witness ==
    /\ mode = 0
    /\ \E i \in Replies :
          /\ Trigger(i) = Pad(FrameOdd, MaxFrameLen)
          /\ Len(Trigger(i)) > SIZEOF_arp_packet
          /\ f_arp_hd(wire[i].frame) = 6
          /\ f_arp_prl(wire[i].frame) = 16

====
